---- MODULE Spec2Model ----
(***************************************************************************)
(* Smart lighting scripts for Home Assistant: the daylight-aware segment   *)
(* calculator (scale_offset, get_dynamic_transitions,                      *)
(* calculate_settings_by_time) of the light controller, the nightlight     *)
(* controller and the explorable playground scripts.                       *)
(*                                                                         *)
(* Decimal hours are exact rationals [n, d] (d > 0, lowest terms): a       *)
(* clock time hour + minute/60 is Rat(60*hour + minute, 60).  IEEE-754     *)
(* rounding of the interpolation is not modelled.  int(x * 0.70) is        *)
(* modelled with the places where the double product truncates one below   *)
(* the exact product (FloatShort70).                                       *)
(*                                                                         *)
(* Each behaviour is one run: Init draws the inputs of the run, an action  *)
(* is one call made by the run, and the variables hold what the call       *)
(* computed.                                                               *)
(*                                                                         *)
(* The scripts' main logic (light controller, nightlight controller,       *)
(* override) runs against hass, the entity states of Home Assistant, with  *)
(* the caller's data: an action is one whole run of a script, and          *)
(* STATE_CACHE, calls and run hold the cache, the service calls and the    *)
(* outcome the run ended with.                                             *)
(***************************************************************************)
EXTENDS Integers, Sequences, FiniteSets, TLC

VARIABLES op, params, call, prev, globals, sun, args, current_hour, transitions,
          conds, result, hass, data, STATE_CACHE, calls, run, past

vars == <<op, params, call, prev, globals, sun, args, current_hour, transitions,
          conds, result, hass, data, STATE_CACHE, calls, run, past>>

\* the state of the scripts' main logic
glue == <<hass, data, STATE_CACHE, calls, run, past>>

(***************************************************************************)
(* Bounds of the model                                                     *)
(***************************************************************************)
SunriseStep == 90        \* minutes between the sunrise values drawn
SunsetStep == 60         \* minutes between the sunset values drawn
HourStep == 30           \* minutes between the current_hour values drawn
DaylightStep == 90       \* minutes between the daylight_hours values drawn
MaxDaylightIdx == 7      \* daylight_hours values drawn: 7.5 h + k * DaylightStep
MaxRuns == 3             \* runs of the override script in one behaviour

(***************************************************************************)
(* Exact arithmetic on decimal hours                                       *)
(***************************************************************************)
Abs(x) == IF x < 0 THEN -x ELSE x

RECURSIVE GCD(_, _)
GCD(a, b) == IF b = 0 THEN a ELSE GCD(b, a % b)

Rat(n, d) ==
    LET s == IF d < 0 THEN -1 ELSE 1
        g == GCD(Abs(n), Abs(d))
    IN  [n |-> (s * n) \div g, d |-> (s * d) \div g]

Whole(k) == [n |-> k, d |-> 1]
Add(x, y) == Rat(x.n * y.d + y.n * x.d, x.d * y.d)
Sub(x, y) == Rat(x.n * y.d - y.n * x.d, x.d * y.d)
Mul(x, y) == Rat(x.n * y.n, x.d * y.d)
Div(x, y) == Rat(x.n * y.d, x.d * y.n)
Lt(x, y) == x.n * y.d < y.n * x.d
Le(x, y) == x.n * y.d <= y.n * x.d

\* Python's max(a, b) / min(a, b): the first argument unless the second is
\* strictly larger / smaller.
PyMax(a, b) == IF Lt(a, b) THEN b ELSE a
PyMin(a, b) == IF Lt(b, a) THEN b ELSE a

\* hour + minute / 60 for a time given in minutes since midnight
DecimalHour(minutes) == Rat(minutes, 60)

(***************************************************************************)
(* scale_offset                                                            *)
(***************************************************************************)
\* mutant: the ratio is not inverted (long days get the larger offset)
scale_offset_noinvert(daylight_hours, min_daylight, max_daylight, min_offset, max_offset) ==
    LET day_hours == PyMax(min_daylight, PyMin(daylight_hours, max_daylight))
        denom == Sub(max_daylight, min_daylight)
    IN  IF denom.n = 0
        THEN [raised |-> TRUE]
        ELSE LET ratio == Div(Sub(day_hours, min_daylight), denom)
             IN  [raised |-> FALSE,
                  value |-> Add(min_offset, Mul(Sub(max_offset, min_offset), ratio))]

\* mutant: daylight_hours is not clamped into [min_daylight, max_daylight]
scale_offset_noclamp(daylight_hours, min_daylight, max_daylight, min_offset, max_offset) ==
    LET day_hours == daylight_hours
        denom == Sub(max_daylight, min_daylight)
    IN  IF denom.n = 0
        THEN [raised |-> TRUE]
        ELSE LET ratio == Div(Sub(day_hours, min_daylight), denom)
             IN  [raised |-> FALSE,
                  value |-> Add(min_offset,
                                Mul(Sub(max_offset, min_offset), Sub(Whole(1), ratio)))]

\* raised: the division raises ZeroDivisionError (max_daylight = min_daylight)
scale_offset(daylight_hours, min_daylight, max_daylight, min_offset, max_offset) ==
    LET day_hours == PyMax(min_daylight, PyMin(daylight_hours, max_daylight))
        denom == Sub(max_daylight, min_daylight)
    IN  IF denom.n = 0
        THEN [raised |-> TRUE]
        ELSE LET ratio == Div(Sub(day_hours, min_daylight), denom)
             IN  [raised |-> FALSE,
                  value |-> Add(min_offset,
                                Mul(Sub(max_offset, min_offset), Sub(Whole(1), ratio)))]

(***************************************************************************)
(* Values before any call                                                  *)
(***************************************************************************)
NotCalled == [called |-> FALSE]

\* no script has run: empty cache, no service call
NoRun ==
    /\ hass = <<>>
    /\ data = <<>>
    /\ STATE_CACHE = {}
    /\ calls = <<>>
    /\ run = [script |-> "none"]
    /\ past = <<>>

(***************************************************************************)
(* scale_offset as a function of its five parameters                       *)
(***************************************************************************)
\* min_daylight / max_daylight: int(data.get(...)), any integers
DaylightBoundSet == {9, 12, 14}

\* the offsets the repository passes, and 0
OffsetSet == {Whole(0), Rat(3, 10), Rat(1, 2), Rat(3, 4), Whole(1), Whole(2), Rat(11, 4)}

\* daylight_hours = sunset - sunrise: unconstrained, negative when reversed
DaylightSet ==
    {DecimalHour(450 + k * DaylightStep) : k \in 0..MaxDaylightIdx}
        \cup {DecimalHour(-60), DecimalHour(540), DecimalHour(840)}

ParamSet ==
    {[min_daylight |-> mn, max_daylight |-> mx, min_offset |-> lo, max_offset |-> hi] :
        mn \in DaylightBoundSet, mx \in DaylightBoundSet, lo \in OffsetSet, hi \in OffsetSet}

\* a run makes up to two calls, e.g. evening_offset and twilight_offset
ScaleOffsetCall(d) ==
    /\ ~prev.called
    /\ op' = [name |-> "scale_offset", variant |-> "none"]
    /\ prev' = call
    /\ call' = [called |-> TRUE, daylight_hours |-> d,
                out |-> scale_offset(d, Whole(params.min_daylight),
                                     Whole(params.max_daylight),
                                     params.min_offset, params.max_offset)]
    /\ UNCHANGED <<params, globals, sun, args, current_hour, transitions, conds, result>>
    /\ UNCHANGED glue

NextScale == \E d \in DaylightSet : ScaleOffsetCall(d)

(***************************************************************************)
(* get_dynamic_transitions, in its three variants.  g holds the module     *)
(* globals MIN_DAYLIGHT and MAX_DAYLIGHT.  raised: scale_offset raised.    *)
(***************************************************************************)
Boundaries(morning_start, morning_end, day_start, day_end, evening_start, evening_end, twilight_start, twilight_end) ==
    [raised |-> FALSE,
     morning_start |-> morning_start, morning_end |-> morning_end,
     day_start |-> day_start, day_end |-> day_end,
     evening_start |-> evening_start, evening_end |-> evening_end,
     twilight_start |-> twilight_start, twilight_end |-> twilight_end]

\* mutant: day_start is one hour after sunrise while morning_end is two
get_dynamic_transitions_daystart(g, local_sunrise, local_sunset) ==
    LET daylight_hours == Sub(local_sunset, local_sunrise)
        evening_offset == scale_offset(daylight_hours, Whole(g.MIN_DAYLIGHT),
                                       Whole(g.MAX_DAYLIGHT), Rat(1, 2), Whole(2))
        twilight_offset == scale_offset(daylight_hours, Whole(g.MIN_DAYLIGHT),
                                        Whole(g.MAX_DAYLIGHT), Rat(3, 10), Whole(1))
    IN  IF evening_offset.raised \/ twilight_offset.raised
        THEN [raised |-> TRUE]
        ELSE LET evening_start == local_sunset
                 evening_end == Add(evening_start, evening_offset.value)
                 twilight_start == evening_end
                 twilight_end == Add(twilight_start, twilight_offset.value)
             IN  Boundaries(Sub(local_sunrise, Whole(1)),
                            Add(local_sunrise, Whole(2)),
                            Add(local_sunrise, Whole(1)),
                            local_sunset,
                            evening_start, evening_end, twilight_start, twilight_end)

\* python_scripts/smart_light_controller.py
get_dynamic_transitions(g, local_sunrise, local_sunset) ==
    LET daylight_hours == Sub(local_sunset, local_sunrise)
        evening_offset == scale_offset(daylight_hours, Whole(g.MIN_DAYLIGHT),
                                       Whole(g.MAX_DAYLIGHT), Rat(1, 2), Whole(2))
        twilight_offset == scale_offset(daylight_hours, Whole(g.MIN_DAYLIGHT),
                                        Whole(g.MAX_DAYLIGHT), Rat(3, 10), Whole(1))
    IN  IF evening_offset.raised \/ twilight_offset.raised
        THEN [raised |-> TRUE]
        ELSE LET evening_start == local_sunset
                 evening_end == Add(evening_start, evening_offset.value)
                 twilight_start == evening_end
                 twilight_end == Add(twilight_start, twilight_offset.value)
             IN  Boundaries(Sub(local_sunrise, Whole(1)),
                            Add(local_sunrise, Whole(2)),
                            Add(local_sunrise, Whole(2)),
                            local_sunset,
                            evening_start, evening_end, twilight_start, twilight_end)

\* python_scripts/smart_nightlight_controller.py
get_dynamic_transitions_nightlight(g, local_sunrise, local_sunset) ==
    LET daylight_hours == Sub(local_sunset, local_sunrise)
        evening_offset == scale_offset(daylight_hours, Whole(g.MIN_DAYLIGHT),
                                       Whole(g.MAX_DAYLIGHT), Rat(1, 2), Whole(2))
        twilight_offset == scale_offset(daylight_hours, Whole(g.MIN_DAYLIGHT),
                                        Whole(g.MAX_DAYLIGHT), Rat(1, 2), Whole(1))
    IN  IF evening_offset.raised \/ twilight_offset.raised
        THEN [raised |-> TRUE]
        ELSE LET morning_start == Sub(local_sunrise, twilight_offset.value)
                 morning_end == Add(local_sunrise, twilight_offset.value)
                 evening_start == local_sunset
                 evening_end == Add(evening_start, evening_offset.value)
                 twilight_start == evening_end
                 twilight_end == Add(twilight_start, twilight_offset.value)
             IN  Boundaries(morning_start, morning_end, morning_end, local_sunset,
                            evening_start, evening_end, twilight_start, twilight_end)

\* explorable/explore_light_settings.py, explorable/explore_dynamic_transitions.py
get_dynamic_transitions_explore(g, local_sunrise, local_sunset) ==
    LET daylight_hours == Sub(local_sunset, local_sunrise)
        morning_offset == scale_offset(daylight_hours, Whole(g.MIN_DAYLIGHT),
                                       Whole(g.MAX_DAYLIGHT), Rat(3, 4), Whole(1))
        evening_offset == scale_offset(daylight_hours, Whole(g.MIN_DAYLIGHT),
                                       Whole(g.MAX_DAYLIGHT), Rat(1, 2), Rat(11, 4))
        twilight_offset == scale_offset(daylight_hours, Whole(g.MIN_DAYLIGHT),
                                        Whole(g.MAX_DAYLIGHT), Rat(1, 2), Whole(2))
    IN  IF morning_offset.raised \/ evening_offset.raised \/ twilight_offset.raised
        THEN [raised |-> TRUE]
        ELSE LET long_day == Lt(Whole(14), daylight_hours)
                 morning_start == IF long_day THEN local_sunrise
                                  ELSE Sub(local_sunrise, morning_offset.value)
                 morning_end == IF long_day THEN Add(local_sunrise, Whole(2))
                                ELSE Add(local_sunrise, morning_offset.value)
                 evening_start == IF long_day THEN Sub(local_sunset, Whole(1))
                                  ELSE local_sunset
                 evening_end == Add(local_sunset, evening_offset.value)
                 twilight_end == Add(evening_end, twilight_offset.value)
             IN  Boundaries(morning_start, morning_end, morning_end, evening_start,
                            evening_start, evening_end, evening_end, twilight_end)

(***************************************************************************)
(* calculate_settings_by_time                                              *)
(***************************************************************************)
\* insertion order of the time_modes dict, which the for loop follows
ModeOrder == <<"morning", "day", "evening", "twilight", "night">>

\* mutant: night lacks the branch before morning_start
condition_nowrap(mode, t, h) ==
    CASE mode = "morning"  -> Le(t.morning_start, h) /\ Lt(h, t.morning_end)
      [] mode = "day"      -> Le(t.day_start, h) /\ Lt(h, t.day_end)
      [] mode = "evening"  -> Le(t.evening_start, h) /\ Lt(h, t.evening_end)
      [] mode = "twilight" -> Le(t.twilight_start, h) /\ Lt(h, t.twilight_end)
      [] mode = "night"    -> Le(t.twilight_end, h) /\ Lt(h, Whole(24))

\* mutant: the intervals are closed at their end
condition_closed(mode, t, h) ==
    CASE mode = "morning"  -> Le(t.morning_start, h) /\ Le(h, t.morning_end)
      [] mode = "day"      -> Le(t.day_start, h) /\ Le(h, t.day_end)
      [] mode = "evening"  -> Le(t.evening_start, h) /\ Le(h, t.evening_end)
      [] mode = "twilight" -> Le(t.twilight_start, h) /\ Le(h, t.twilight_end)
      [] mode = "night"    -> \/ Le(t.twilight_end, h) /\ Lt(h, Whole(24))
                              \/ Le(Whole(0), h) /\ Lt(h, t.morning_start)

\* mutant: night joins its two branches with "and"
condition_and(mode, t, h) ==
    CASE mode = "morning"  -> Le(t.morning_start, h) /\ Lt(h, t.morning_end)
      [] mode = "day"      -> Le(t.day_start, h) /\ Lt(h, t.day_end)
      [] mode = "evening"  -> Le(t.evening_start, h) /\ Lt(h, t.evening_end)
      [] mode = "twilight" -> Le(t.twilight_start, h) /\ Lt(h, t.twilight_end)
      [] mode = "night"    -> /\ Le(t.twilight_end, h) /\ Lt(h, Whole(24))
                              /\ Le(Whole(0), h) /\ Lt(h, t.morning_start)

\* mutant: day ends an hour before day_end
condition_dayshort(mode, t, h) ==
    CASE mode = "morning"  -> Le(t.morning_start, h) /\ Lt(h, t.morning_end)
      [] mode = "day"      -> Le(t.day_start, h) /\ Lt(h, Sub(t.day_end, Whole(1)))
      [] mode = "evening"  -> Le(t.evening_start, h) /\ Lt(h, t.evening_end)
      [] mode = "twilight" -> Le(t.twilight_start, h) /\ Lt(h, t.twilight_end)
      [] mode = "night"    -> \/ Le(t.twilight_end, h) /\ Lt(h, Whole(24))
                              \/ Le(Whole(0), h) /\ Lt(h, t.morning_start)

\* the "condition" lambda of each entry of time_modes
condition(mode, t, h) ==
    CASE mode = "morning"  -> Le(t.morning_start, h) /\ Lt(h, t.morning_end)
      [] mode = "day"      -> Le(t.day_start, h) /\ Lt(h, t.day_end)
      [] mode = "evening"  -> Le(t.evening_start, h) /\ Lt(h, t.evening_end)
      [] mode = "twilight" -> Le(t.twilight_start, h) /\ Lt(h, t.twilight_end)
      [] mode = "night"    -> \/ Le(t.twilight_end, h) /\ Lt(h, Whole(24))
                              \/ Le(Whole(0), h) /\ Lt(h, t.morning_start)

\* index in ModeOrder of the entry the for loop returns, 0 when it falls through
RECURSIVE FirstMatchFrom(_, _, _)
FirstMatchFrom(i, t, h) ==
    IF i > Len(ModeOrder) THEN 0
    ELSE IF condition(ModeOrder[i], t, h) THEN i
    ELSE FirstMatchFrom(i + 1, t, h)

Max(a, b) == IF b > a THEN b ELSE a
Min(a, b) == IF b < a THEN b ELSE a

\* int(x * 0.70) truncates one below the exact product where the double
\* nearest to 0.7 times x rounds below the integer 7x/10 (0 <= x <= 10000)
FloatShort70(x) ==
    /\ x % 10 = 0
    /\ \/ x = 90
       \/ x \in 170..180
       \/ x \in 330..360
       \/ x \in 650..730
       \/ x \in 1290..1460
       \/ x \in 2570..2920
       \/ x \in 5130..5850

\* int(x * 0.pct) for 0 <= x <= 10000 and pct in {55, 60, 65, 70, 75}
IntOfProduct(x, pct) ==
    IF pct = 70 /\ FloatShort70(x) THEN (x * pct) \div 100 - 1
    ELSE (x * pct) \div 100

\* data.get(...) without a value
None == -1
Truthy(x) == x # None /\ x # 0
NoEntity == "None"

\* the "brightness" lambdas of time_modes: light controller and explorable
\* mutant: the fraction of the high value is not floored against the minimum
brightness_nofloor(mode, g, a) ==
    CASE mode = "morning"  -> IntOfProduct(g.BRIGHTNESS_HIGH, 75)
      [] mode = "day"      -> g.BRIGHTNESS_HIGH
      [] mode = "evening"  -> IntOfProduct(g.BRIGHTNESS_HIGH, 70)
      [] mode = "twilight" -> IntOfProduct(g.BRIGHTNESS_HIGH, 60)
      [] mode = "night"    -> IF Truthy(a.nightlight_brightness_pct)
                              THEN a.nightlight_brightness_pct
                              ELSE g.BRIGHTNESS_LOW

\* mutant: the day entry is a copy of the morning entry
brightness_daycopy(mode, g, a) ==
    CASE mode = "morning"  -> Max(g.BRIGHTNESS_LOW, IntOfProduct(g.BRIGHTNESS_HIGH, 75))
      [] mode = "day"      -> Max(g.BRIGHTNESS_LOW, IntOfProduct(g.BRIGHTNESS_HIGH, 75))
      [] mode = "evening"  -> Max(g.BRIGHTNESS_LOW, IntOfProduct(g.BRIGHTNESS_HIGH, 70))
      [] mode = "twilight" -> Max(g.BRIGHTNESS_LOW, IntOfProduct(g.BRIGHTNESS_HIGH, 60))
      [] mode = "night"    -> IF Truthy(a.nightlight_brightness_pct)
                              THEN a.nightlight_brightness_pct
                              ELSE g.BRIGHTNESS_LOW

brightness(mode, g, a) ==
    CASE mode = "morning"  -> Max(g.BRIGHTNESS_LOW, IntOfProduct(g.BRIGHTNESS_HIGH, 75))
      [] mode = "day"      -> g.BRIGHTNESS_HIGH
      [] mode = "evening"  -> Max(g.BRIGHTNESS_LOW, IntOfProduct(g.BRIGHTNESS_HIGH, 70))
      [] mode = "twilight" -> Max(g.BRIGHTNESS_LOW, IntOfProduct(g.BRIGHTNESS_HIGH, 60))
      [] mode = "night"    -> IF Truthy(a.nightlight_brightness_pct)
                              THEN a.nightlight_brightness_pct
                              ELSE g.BRIGHTNESS_LOW

\* the "color_temp" lambdas
color_temp(mode, g) ==
    CASE mode = "morning"  -> Max(g.COLOR_TEMP_LOW, IntOfProduct(g.COLOR_TEMP_HIGH, 65))
      [] mode = "day"      -> g.COLOR_TEMP_HIGH
      [] mode = "evening"  -> Max(g.COLOR_TEMP_LOW, IntOfProduct(g.COLOR_TEMP_HIGH, 65))
      [] mode = "twilight" -> Max(g.COLOR_TEMP_LOW, IntOfProduct(g.COLOR_TEMP_HIGH, 55))
      [] mode = "night"    -> g.COLOR_TEMP_LOW

\* the "timeout" lambdas, in minutes
\* mutant: twilight halves the day timeout instead of the evening timeout
timeout_twilightday(mode, a) ==
    CASE mode = "morning"  -> a.idle_timeout_day \div 2
      [] mode = "day"      -> a.idle_timeout_day
      [] mode = "evening"  -> a.idle_timeout_evening
      [] mode = "twilight" -> a.idle_timeout_day \div 2
      [] mode = "night"    -> a.idle_timeout_night

timeout(mode, a) ==
    CASE mode = "morning"  -> a.idle_timeout_day \div 2
      [] mode = "day"      -> a.idle_timeout_day
      [] mode = "evening"  -> a.idle_timeout_evening
      [] mode = "twilight" -> a.idle_timeout_evening \div 2
      [] mode = "night"    -> a.idle_timeout_night

\* the "light_entity" entries
light_entity_of(mode, a) ==
    IF mode = "night" /\ a.nightlight_entity # NoEntity
    THEN a.nightlight_entity
    ELSE a.light_entity

\* the dict returned for the matching mode: light controller and explorable
\* (g: module globals, a: the function's arguments)
preset(mode, g, a) ==
    [called |-> TRUE, raised |-> FALSE, mode |-> mode,
     brightness_pct |-> brightness(mode, g, a),
     color_temp_kelvin |-> color_temp(mode, g),
     idle_timeout_sec |-> timeout(mode, a) * 60,
     light_entity |-> light_entity_of(mode, a)]

\* the entry of time_modes for mode, evaluated: nightlight controller
NightlightEntry(mode, brightness_low, brightness_boost, color_temp_high, color_temp_low) ==
    CASE mode = "morning" ->
            [brightness |-> Min(100, brightness_low + 10),
             boosted_pct |-> Min(100, brightness_boost - 10),
             color_temp |-> IntOfProduct(color_temp_high, 65)]
      [] mode = "day" ->
            [brightness |-> Min(100, brightness_low + 40),
             boosted_pct |-> brightness_boost,
             color_temp |-> color_temp_high]
      [] mode = "evening" ->
            [brightness |-> Min(100, brightness_low + 10),
             boosted_pct |-> Min(100, brightness_boost - 10),
             color_temp |-> IntOfProduct(color_temp_high, 70)]
      [] mode = "twilight" ->
            [brightness |-> Min(100, brightness_low + 5),
             boosted_pct |-> Min(100, brightness_boost - 20),
             color_temp |-> IntOfProduct(color_temp_high, 65)]
      [] mode = "night" ->
            [brightness |-> brightness_low,
             boosted_pct |-> Min(100, brightness_boost - 25),
             color_temp |-> color_temp_low]

preset_nightlight(mode, brightness_low, brightness_boost, color_temp_high, color_temp_low) ==
    LET setting == NightlightEntry(mode, brightness_low, brightness_boost,
                                   color_temp_high, color_temp_low)
    IN  [called |-> TRUE, raised |-> FALSE, mode |-> mode,
         brightness_pct |-> setting.brightness,
         color_temp_kelvin |-> setting.color_temp,
         boosted_pct |-> Max(setting.brightness, setting.boosted_pct)]

\* module-level constants of explorable/explore_light_settings.py
ExploreGlobals ==
    [MIN_DAYLIGHT |-> 9, MAX_DAYLIGHT |-> 14, BRIGHTNESS_LOW |-> 35,
     BRIGHTNESS_HIGH |-> 100, COLOR_TEMP_LOW |-> 2000, COLOR_TEMP_HIGH |-> 4500]

Variants == {"light", "nightlight", "explore"}

GlobalsOf(variant, g) == IF variant = "explore" THEN ExploreGlobals ELSE g

TransitionsOf(variant, g, local_sunrise, local_sunset) ==
    CASE variant = "light" -> get_dynamic_transitions(g, local_sunrise, local_sunset)
      [] variant = "nightlight" ->
            get_dynamic_transitions_nightlight(g, local_sunrise, local_sunset)
      [] variant = "explore" ->
            get_dynamic_transitions_explore(ExploreGlobals, local_sunrise, local_sunset)

\* the value calculate_settings_by_time returns (mode "None": fell through)
calculate_settings_by_time(variant, g, a, h, t) ==
    IF t.raised THEN [called |-> TRUE, raised |-> TRUE, mode |-> "None"]
    ELSE LET i == FirstMatchFrom(1, t, h)
         IN  IF i = 0 THEN [called |-> TRUE, raised |-> FALSE, mode |-> "None"]
             ELSE IF variant = "nightlight"
             THEN preset_nightlight(ModeOrder[i], g.BRIGHTNESS_LOW, g.BRIGHTNESS_HIGH,
                                    g.COLOR_TEMP_HIGH, g.COLOR_TEMP_LOW)
             ELSE preset(ModeOrder[i], GlobalsOf(variant, g), a)

(***************************************************************************)
(* Inputs                                                                  *)
(***************************************************************************)
LastMinute == 1439

SunriseSet == {DecimalHour(k * SunriseStep) : k \in 0..(LastMinute \div SunriseStep)}
SunsetSet == {DecimalHour(k * SunsetStep) : k \in 0..(LastMinute \div SunsetStep)}

\* sunrise/sunset pairs of explorable/sample.py, 07:15 / 19:12, and the
\* fallback of get_sun_times
SunExamples ==
    {[local_sunrise |-> DecimalHour(435), local_sunset |-> DecimalHour(1152)],
     [local_sunrise |-> DecimalHour(475), local_sunset |-> DecimalHour(979)],
     [local_sunrise |-> DecimalHour(311), local_sunset |-> DecimalHour(1271)],
     [local_sunrise |-> DecimalHour(420), local_sunset |-> DecimalHour(1080)]}

SunGrid == {[local_sunrise |-> r, local_sunset |-> s] : r \in SunriseSet, s \in SunsetSet}

\* current_time.hour + current_time.minute / 60
HourSet ==
    {DecimalHour(k * HourStep) : k \in 0..(LastMinute \div HourStep)}
        \cup {DecimalHour(120), DecimalHour(555), DecimalHour(810), DecimalHour(1152),
              DecimalHour(1439)}

\* defaults of the data.get calls of the light controller
DefaultGlobals ==
    [MIN_DAYLIGHT |-> 9, MAX_DAYLIGHT |-> 14, BRIGHTNESS_LOW |-> 20,
     BRIGHTNESS_HIGH |-> 100, COLOR_TEMP_LOW |-> 2000, COLOR_TEMP_HIGH |-> 4500]

DefaultArgs ==
    [light_entity |-> "light.room", idle_timeout_day |-> 10,
     idle_timeout_evening |-> 15, idle_timeout_night |-> 2,
     nightlight_brightness_pct |-> None, nightlight_entity |-> NoEntity]

\* configured daylight ranges, valid (MIN_DAYLIGHT < MAX_DAYLIGHT)
DaylightRangeSet ==
    {[DefaultGlobals EXCEPT !.MIN_DAYLIGHT = d[1], !.MAX_DAYLIGHT = d[2]] :
        d \in {<<9, 14>>, <<10, 13>>}}

\* configured percentages in 0..100, colour temperatures either way round
GlobalsSet ==
    {[DefaultGlobals EXCEPT !.BRIGHTNESS_LOW = bl, !.BRIGHTNESS_HIGH = bh,
                            !.COLOR_TEMP_LOW = c[1], !.COLOR_TEMP_HIGH = c[2]] :
        bl \in {0, 20, 100}, bh \in {0, 90, 100},
        c \in {<<2000, 4500>>, <<4000, 3500>>}}

\* sunrise 07:15 (7.25), sunset 19:12 (19.2)
ExampleSun == [local_sunrise |-> DecimalHour(435), local_sunset |-> DecimalHour(1152)]

ArgsSet ==
    {[light_entity |-> "light.room", idle_timeout_day |-> i[1],
      idle_timeout_evening |-> i[2], idle_timeout_night |-> i[3],
      nightlight_brightness_pct |-> nb, nightlight_entity |-> ne] :
        i \in {<<10, 15, 2>>, <<5, 7, 3>>}, nb \in {None, 0, 10, 100},
        ne \in {NoEntity, "light.nightlight"}}

(***************************************************************************)
(* The calculator: each action is one call from a run of a script; the     *)
(* variables hold the inputs and what the latest call computed.            *)
(***************************************************************************)
GetDynamicTransitions(variant) ==
    /\ op.name = "init"
    /\ op' = [name |-> "get_dynamic_transitions", variant |-> variant]
    /\ transitions' = TransitionsOf(variant, globals, sun.local_sunrise, sun.local_sunset)
    /\ conds' = {}
    /\ result' = NotCalled
    /\ UNCHANGED <<params, call, prev, globals, sun, args, current_hour>>
    /\ UNCHANGED glue

CalculateSettingsByTime(variant, h) ==
    /\ op.name = "init"
    /\ \E t \in {TransitionsOf(variant, globals, sun.local_sunrise, sun.local_sunset)} :
        /\ op' = [name |-> "calculate_settings_by_time", variant |-> variant]
        /\ current_hour' = h
        /\ transitions' = t
        /\ conds' = IF t.raised THEN {}
                    ELSE {ModeOrder[i] : i \in {j \in 1..Len(ModeOrder) :
                                                    condition(ModeOrder[j], t, h)}}
        /\ result' = calculate_settings_by_time(variant, globals, args, h, t)
        /\ UNCHANGED <<params, call, prev, globals, sun, args>>
        /\ UNCHANGED glue

Init ==
    /\ op = [name |-> "init", variant |-> "none"]
    /\ params = [min_daylight |-> 9, max_daylight |-> 14,
                 min_offset |-> Rat(3, 10), max_offset |-> Whole(2)]
    /\ call = NotCalled
    /\ prev = NotCalled
    /\ \/ /\ sun \in SunGrid \cup SunExamples
          /\ globals \in DaylightRangeSet
          /\ args = DefaultArgs
       \/ /\ sun = ExampleSun
          /\ globals \in GlobalsSet
          /\ args \in ArgsSet
    /\ current_hour = Whole(0)
    /\ transitions = [raised |-> FALSE, called |-> FALSE]
    /\ conds = {}
    /\ result = NotCalled
    /\ NoRun

Next ==
    \/ \E variant \in Variants : GetDynamicTransitions(variant)
    \/ \E variant \in Variants, h \in HourSet : CalculateSettingsByTime(variant, h)

Spec == Init /\ [][Next]_vars

(***************************************************************************)
(* scale_offset called with arbitrary parameters                           *)
(***************************************************************************)
InitScale ==
    /\ op = [name |-> "init", variant |-> "none"]
    /\ params \in ParamSet
    /\ call = NotCalled
    /\ prev = NotCalled
    /\ sun = [local_sunrise |-> Whole(7), local_sunset |-> Whole(18)]
    /\ globals = DefaultGlobals
    /\ args = DefaultArgs
    /\ current_hour = Whole(0)
    /\ transitions = [raised |-> FALSE, called |-> FALSE]
    /\ conds = {}
    /\ result = NotCalled
    /\ NoRun

SpecScale == InitScale /\ [][NextScale]_vars

(***************************************************************************)
(* The scripts' main logic against Home Assistant.                         *)
(*                                                                         *)
(* hass maps an entity id to its state object: exists is FALSE where       *)
(* hass.states.get returns None.  A run threads st through its             *)
(* statements: cache is the key set of STATE_CACHE (each key maps to the   *)
(* state object hass.states.get returned, None included), calls the        *)
(* service calls issued so far in order, raised whether an exception left  *)
(* the script.  A key absent from a service call's data is None.           *)
(***************************************************************************)
\* the calculator's variables, which a run of the main logic leaves alone
calc == <<op, params, call, prev, globals, sun, transitions, conds>>

Started == [cache |-> {}, calls |-> <<>>, raised |-> FALSE]

Missing == [exists |-> FALSE, state |-> "None", brightness |-> None,
            color_temp_kelvin |-> None]

Entity(state) == [exists |-> TRUE, state |-> state, brightness |-> None,
                  color_temp_kelvin |-> None]

LightOn(b, k) ==
    [exists |-> TRUE, state |-> "on", brightness |-> b, color_temp_kelvin |-> k]

get_cached_state(st, entity_id) == [st EXCEPT !.cache = @ \cup {entity_id}]

Service(st, c) == [st EXCEPT !.calls = Append(@, c)]

Raise(st) == [st EXCEPT !.raised = TRUE]

\* int(current_brightness / 2.55): equal to floor(100 * b / 255) for every
\* brightness 0..255 in double arithmetic
current_brightness_pct(light_state) ==
    IF light_state.brightness # None THEN (light_state.brightness * 100) \div 255 ELSE 0

current_color_temp_val(light_state) ==
    IF light_state.color_temp_kelvin # None THEN light_state.color_temp_kelvin ELSE -1

brightness_changed_above3(current, brightness_pct) == Abs(current - brightness_pct) > 3

brightness_changed(current, brightness_pct) == Abs(current - brightness_pct) >= 3

color_temp_changed(current, color_temp_kelvin) == Abs(current - color_temp_kelvin) > 0

TurnOn(light_entity, transition, brightness_pct, color_temp_kelvin) ==
    [domain |-> "light", service |-> "turn_on", entity_id |-> light_entity,
     transition |-> transition, brightness_pct |-> brightness_pct,
     color_temp_kelvin |-> color_temp_kelvin]

TurnOff(light_entity, transition) ==
    [domain |-> "light", service |-> "turn_off", entity_id |-> light_entity,
     transition |-> transition]

\* identical in the light controller and the nightlight controller; a target
\* color_temp_kelvin of None raises TypeError in abs(... - None), which the
\* function's except clause turns into the return value False
apply_light_settings(st, light_entity, brightness_pct, color_temp_kelvin, transition) ==
    IF light_entity = NoEntity THEN [st |-> st, value |-> FALSE]
    ELSE LET s1 == get_cached_state(st, light_entity)
             light_state == hass[light_entity]
             cur == current_brightness_pct(light_state)
             cct == current_color_temp_val(light_state)
         IN  IF ~light_state.exists THEN [st |-> s1, value |-> FALSE]
             ELSE IF light_state.state = "off" /\ brightness_pct = 0
             THEN [st |-> s1, value |-> TRUE]
             ELSE IF color_temp_kelvin = None THEN [st |-> s1, value |-> FALSE]
             ELSE IF ~(brightness_changed(cur, brightness_pct)
                        \/ color_temp_changed(cct, color_temp_kelvin))
             THEN [st |-> s1, value |-> TRUE]
             ELSE IF brightness_pct > 0
             THEN [st |-> Service(s1, TurnOn(light_entity, transition,
                            IF brightness_changed(cur, brightness_pct)
                            THEN brightness_pct ELSE None,
                            IF color_temp_changed(cct, color_temp_kelvin)
                            THEN color_temp_kelvin ELSE None)),
                   value |-> TRUE]
             ELSE IF light_state.state = "on"
             THEN [st |-> Service(s1, TurnOff(light_entity, transition)), value |-> TRUE]
             ELSE [st |-> s1, value |-> TRUE]

\* the calculator at rest while the main logic is exercised
CalcIdle ==
    /\ op = [name |-> "init", variant |-> "none"]
    /\ params = [min_daylight |-> 9, max_daylight |-> 14,
                 min_offset |-> Rat(3, 10), max_offset |-> Whole(2)]
    /\ call = NotCalled
    /\ prev = NotCalled
    /\ transitions = [raised |-> FALSE, called |-> FALSE]
    /\ conds = {}

(***************************************************************************)
(* apply_light_settings called on one light                                *)
(***************************************************************************)
\* Home Assistant brightness 0..255; 56 is 21 %, 58 is 22 %, 64 is 25 %
BrightnessSet == {1, 26, 51, 56, 58, 64, 128, 255}

KelvinSet == {2000, 2925, 4500}

LightStateSet ==
    {Missing, Entity("off"), Entity("unavailable")}
        \cup {LightOn(b, k) : b \in BrightnessSet, k \in KelvinSet \cup {None}}

TargetPctSet == {0, 1, 2, 3, 20, 22, 23, 25, 50, 100}

DefaultTransition == Rat(3, 4)

ApplyLightSettings(light_entity, brightness_pct, color_temp_kelvin) ==
    /\ run.script = "none"
    /\ \E out \in {apply_light_settings(Started, light_entity, brightness_pct,
                                        color_temp_kelvin, DefaultTransition)} :
        /\ STATE_CACHE' = out.st.cache
        /\ calls' = out.st.calls
        /\ run' = [script |-> "apply_light_settings", outcome |-> "returned",
                   light_entity |-> light_entity, brightness_pct |-> brightness_pct,
                   color_temp_kelvin |-> color_temp_kelvin, value |-> out.value]
    /\ UNCHANGED <<hass, data, past, args, current_hour, result>>
    /\ UNCHANGED calc

InitApply ==
    /\ CalcIdle
    /\ sun = ExampleSun
    /\ globals = DefaultGlobals
    /\ args = DefaultArgs
    /\ current_hour = Whole(0)
    /\ result = NotCalled
    /\ hass \in [{"light.room"} -> LightStateSet]
    /\ data = <<>>
    /\ STATE_CACHE = {}
    /\ calls = <<>>
    /\ run = [script |-> "none"]
    /\ past = <<>>

NextApply ==
    \E light_entity \in {"light.room", NoEntity}, brightness_pct \in TargetPctSet,
       color_temp_kelvin \in KelvinSet \cup {None} :
        ApplyLightSettings(light_entity, brightness_pct, color_temp_kelvin)

SpecApply == InitApply /\ [][NextApply]_vars

(***************************************************************************)
(* The light controller's main logic                                       *)
(***************************************************************************)
\* the texts float() parses, among the states a lux sensor is given here
NumberTextSet == {"0", "3", "10", "25", "60", "60.5", "61"}

float(text) ==
    CASE text = "0" -> Whole(0)
      [] text = "3" -> Whole(3)
      [] text = "10" -> Whole(10)
      [] text = "25" -> Whole(25)
      [] text = "60" -> Whole(60)
      [] text = "60.5" -> Rat(121, 2)
      [] text = "61" -> Whole(61)

\* int() of a number: truncation toward zero
int(x) == IF x.n >= 0 THEN x.n \div x.d ELSE -((-x.n) \div x.d)

get_lux_value(st, sensor_entity) ==
    IF sensor_entity = NoEntity THEN [st |-> st, value |-> Whole(0)]
    ELSE LET sensor_state == hass[sensor_entity]
         IN  [st |-> get_cached_state(st, sensor_entity),
              value |-> IF \/ ~sensor_state.exists
                           \/ sensor_state.state \in {"unknown", "unavailable", "None"}
                        THEN Whole(0)
                        ELSE IF sensor_state.state \in NumberTextSet
                        THEN float(sensor_state.state)
                        ELSE Whole(0)]

\* 'HH:MM:SS' as <<hours, minutes, seconds>>, each printed with two digits
seconds_to_hms(seconds) ==
    LET sec == IF seconds < 0 THEN 0 ELSE seconds
    IN  <<sec \div 3600, (sec % 3600) \div 60, sec % 60>>

TimerCancel(timer_entity) ==
    [domain |-> "timer", service |-> "cancel", entity_id |-> timer_entity]

TimerStart(timer_entity, duration) ==
    [domain |-> "timer", service |-> "start", entity_id |-> timer_entity,
     duration |-> duration]

\* start_idle_timer reads the timer with hass.states.get, not through the cache
start_idle_timer_nocancel(st, timer_entity, duration_sec) ==
    IF timer_entity = NoEntity \/ ~hass[timer_entity].exists THEN st
    ELSE Service(st, TimerStart(timer_entity, seconds_to_hms(duration_sec)))

start_idle_timer(st, timer_entity, duration_sec) ==
    IF timer_entity = NoEntity \/ ~hass[timer_entity].exists THEN st
    ELSE Service(IF hass[timer_entity].state \in {"active", "paused"}
                 THEN Service(st, TimerCancel(timer_entity)) ELSE st,
                 TimerStart(timer_entity, seconds_to_hms(duration_sec)))

\* int(lux_value) <= int(lux_max)
lux_gate(lux_value, lux_max) == int(lux_value) <= int(lux_max)

\* lines 332-340: the lux value, the state of the lights_for_lux_check group
\* (AttributeError when the group entity is missing) and the gate
LuxCheck ==
    LET lux == get_lux_value(Started, data.lux_sensor)
        group == data.lights_for_lux_check
    IN  IF group # NoEntity /\ ~hass[group].exists
        THEN [st |-> Raise(lux.st), lux_value |-> lux.value, passed |-> FALSE]
        ELSE [st |-> lux.st, lux_value |-> lux.value,
              passed |-> \/ group = NoEntity
                         \/ hass[group].state = "on"
                         \/ /\ hass[group].state = "off"
                            /\ lux_gate(lux.value, data.lux_max)]

\* lines 376-401: motion and timer states through the cache (AttributeError
\* when a configured entity is missing), then the motion branch; calculations
\* with mode "None" is the None a fall-through of the calculator returns
Activation(st, calculations) ==
    LET binary_sensor == data.binary_sensor
        timer_entity == data.timer
        s1 == IF binary_sensor # NoEntity THEN get_cached_state(st, binary_sensor) ELSE st
        s2 == IF timer_entity # NoEntity THEN get_cached_state(s1, timer_entity) ELSE s1
        room_motion_state == IF binary_sensor # NoEntity
                             THEN hass[binary_sensor].state ELSE "on"
        idle_timer_state == IF timer_entity # NoEntity
                            THEN hass[timer_entity].state ELSE "active"
    IN  IF calculations.raised THEN Raise(st)
        ELSE IF binary_sensor # NoEntity /\ ~hass[binary_sensor].exists THEN Raise(s1)
        ELSE IF timer_entity # NoEntity /\ ~hass[timer_entity].exists THEN Raise(s2)
        ELSE IF room_motion_state = "on"
        THEN IF calculations.mode = "None" THEN Raise(s2)
             ELSE start_idle_timer(
                      apply_light_settings(s2, calculations.light_entity,
                                           calculations.brightness_pct,
                                           calculations.color_temp_kelvin,
                                           data.transition).st,
                      timer_entity, calculations.idle_timeout_sec)
        ELSE IF idle_timer_state \in {"idle", "paused"}
        THEN IF calculations.mode = "None" THEN Raise(s2)
             ELSE apply_light_settings(s2, calculations.light_entity, 0, None,
                                       Whole(1)).st
        ELSE s2

\* STATE_CACHE.clear() is the last statement: an exception leaves the script
\* before it
ScriptEnd(st) == IF st.raised THEN st.cache ELSE {}

Outcome(st) == IF st.raised THEN "raised" ELSE "returned"

\* one run of smart_light_controller.py at current_hour h
LightControllerRun(h) ==
    /\ run.script = "none"
    /\ \E check \in {LuxCheck} :
       \E calculations \in {calculate_settings_by_time("light", globals, args, h,
              get_dynamic_transitions(globals, sun.local_sunrise, sun.local_sunset))} :
       \E st \in {IF check.st.raised \/ ~check.passed THEN check.st
                  ELSE Activation(get_cached_state(check.st, "sun.sun"), calculations)} :
        /\ STATE_CACHE' = ScriptEnd(st)
        /\ calls' = st.calls
        /\ run' = [script |-> "smart_light_controller", outcome |-> Outcome(st),
                   lux_value |-> check.lux_value, passed |-> check.passed]
        /\ current_hour' = h
        /\ result' = IF check.passed THEN calculations ELSE result
    /\ UNCHANGED <<hass, data, past, args>>
    /\ UNCHANGED calc

\* night, day and evening of ExampleSun
RunHourSet == {DecimalHour(120), DecimalHour(810), DecimalHour(1170)}

LuxStateSet ==
    {Missing, Entity("unknown"), Entity("unavailable"), Entity("abc")}
        \cup {Entity(text) : text \in {"0", "60", "60.5", "61"}}

\* an entity that is not configured is not looked up: its state is left out
StatesIf(entity_id, states) == IF entity_id = NoEntity THEN {Missing} ELSE states

LightEntities ==
    {"sensor.lux", "light.group", "binary_sensor.motion", "timer.room", "light.room",
     "light.nightlight"}

LightDataSet ==
    {[lux_sensor |-> l, lux_max |-> Whole(60), lights_for_lux_check |-> g,
      binary_sensor |-> b, timer |-> t, transition |-> DefaultTransition] :
        l \in {NoEntity, "sensor.lux"}, g \in {NoEntity, "light.group"},
        b \in {NoEntity, "binary_sensor.motion"}, t \in {NoEntity, "timer.room"}}

InitLight ==
    /\ CalcIdle
    /\ sun = ExampleSun
    /\ globals = DefaultGlobals
    /\ args \in {DefaultArgs,
                 [DefaultArgs EXCEPT !.nightlight_entity = "light.nightlight",
                                     !.nightlight_brightness_pct = 10]}
    /\ current_hour = Whole(0)
    /\ result = NotCalled
    /\ data \in LightDataSet
    /\ \E lux \in StatesIf(data.lux_sensor, LuxStateSet),
          group \in StatesIf(data.lights_for_lux_check,
                             {Missing, Entity("on"), Entity("off"), Entity("unavailable")}),
          motion \in StatesIf(data.binary_sensor, {Missing, Entity("on"), Entity("off")}),
          timer \in StatesIf(data.timer, {Missing, Entity("idle"), Entity("active"),
                                         Entity("paused")}),
          light \in {Missing, Entity("off"), LightOn(255, 4500), LightOn(51, 2000)} :
            hass = [e \in LightEntities |->
                       CASE e = "sensor.lux" -> lux
                         [] e = "light.group" -> group
                         [] e = "binary_sensor.motion" -> motion
                         [] e = "timer.room" -> timer
                         [] e = "light.room" -> light
                         [] e = "light.nightlight" -> Entity("off")]
    /\ STATE_CACHE = {}
    /\ calls = <<>>
    /\ run = [script |-> "none"]
    /\ past = <<>>

NextLight == \E h \in RunHourSet : LightControllerRun(h)

SpecLight == InitLight /\ [][NextLight]_vars

(***************************************************************************)
(* The nightlight controller's main logic.  A run's loop over nightlights  *)
(* carries acc: the interpreter state st, the variable lux_threshold, and  *)
(* applied, the targets apply_light_settings was called with, in order.    *)
(***************************************************************************)
is_motion_active(st, binary_sensor) ==
    IF binary_sensor = NoEntity THEN [st |-> st, value |-> FALSE]
    ELSE [st |-> get_cached_state(st, binary_sensor),
          value |-> /\ hass[binary_sensor].exists
                    /\ hass[binary_sensor].state \notin {"unavailable", "unknown"}
                    /\ hass[binary_sensor].state = "on"]

\* first pass (lines 369-373): stops at the first nightlight with motion
RECURSIVE AnyMotionFrom(_, _, _)
AnyMotionFrom(st, nightlights, i) ==
    IF i > Len(nightlights) THEN [st |-> st, value |-> FALSE]
    ELSE LET motion == is_motion_active(st, nightlights[i].binary_sensor)
         IN  IF motion.value THEN [st |-> motion.st, value |-> TRUE]
             ELSE AnyMotionFrom(motion.st, nightlights, i + 1)

\* apply_light_settings with the settings' colour temperature; settings is
\* None (mode "None") when the calculator fell through: subscripting it raises
Command(acc, settings, light_entity, brightness_pct) ==
    IF settings.mode = "None" THEN [acc EXCEPT !.st = Raise(@)]
    ELSE [acc EXCEPT
            !.st = apply_light_settings(@, light_entity, brightness_pct,
                                        settings.color_temp_kelvin, data.transition).st,
            !.applied = Append(@, [light_entity |-> light_entity,
                                   brightness_pct |-> brightness_pct])]

Dim(settings) == IF settings.mode = "None" THEN None ELSE settings.brightness_pct

Boosted(settings) == IF settings.mode = "None" THEN None ELSE settings.boosted_pct

\* nightlight.get("lux_threshold", lux_threshold): the default is the loop's
\* variable, which the assignment of line 380 overwrites
threshold(nightlight, lux_threshold) ==
    IF nightlight.lux_threshold # None THEN nightlight.lux_threshold ELSE lux_threshold

\* the body of the second loop (lines 377-434) for one nightlight
ProcessNightlight_dim_all(acc, settings, nightlight) ==
    LET acc1 == [acc EXCEPT !.lux_threshold = threshold(nightlight, @)]
        lux == get_lux_value(acc1.st, nightlight.lux_sensor)
        acc2 == [acc1 EXCEPT !.st = lux.st]
        motion == is_motion_active(acc2.st, nightlight.binary_sensor)
        acc3 == [acc2 EXCEPT !.st = motion.st]
    IN  IF \/ nightlight.light = NoEntity
           \/ nightlight.binary_sensor = NoEntity
           \/ nightlight.lux_sensor = NoEntity
        THEN acc1
        ELSE IF Le(Whole(acc1.lux_threshold), lux.value)
        THEN Command(acc2, settings, nightlight.light, 0)
        ELSE IF data.forced_dim
        THEN Command(acc3, settings, nightlight.light, Dim(settings))
        ELSE IF motion.value
        THEN Command(acc3, settings, nightlight.light, Boosted(settings))
        ELSE Command(acc3, settings, nightlight.light, Dim(settings))

ProcessNightlight(acc, settings, nightlight) ==
    LET acc1 == [acc EXCEPT !.lux_threshold = threshold(nightlight, @)]
        lux == get_lux_value(acc1.st, nightlight.lux_sensor)
        acc2 == [acc1 EXCEPT !.st = lux.st]
        motion == is_motion_active(acc2.st, nightlight.binary_sensor)
        acc3 == [acc2 EXCEPT !.st = motion.st]
    IN  IF \/ nightlight.light = NoEntity
           \/ nightlight.binary_sensor = NoEntity
           \/ nightlight.lux_sensor = NoEntity
        THEN acc1
        ELSE IF Le(Whole(acc1.lux_threshold), lux.value)
        THEN Command(acc2, settings, nightlight.light, 0)
        ELSE IF data.forced_dim
        THEN IF data.motion_source = nightlight.binary_sensor
             THEN Command(acc3, settings, nightlight.light, Dim(settings))
             ELSE acc3
        ELSE IF motion.value
        THEN Command(acc3, settings, nightlight.light, Boosted(settings))
        ELSE Command(acc3, settings, nightlight.light, Dim(settings))

RECURSIVE ProcessFrom(_, _, _, _)
ProcessFrom(acc, settings, nightlights, i) ==
    IF i > Len(nightlights) \/ acc.st.raised THEN acc
    ELSE ProcessFrom(ProcessNightlight(acc, settings, nightlights[i]), settings,
                     nightlights, i + 1)

\* lines 365-434
MultiLight(st, settings) ==
    LET any == IF data.forced_dim THEN [st |-> st, value |-> FALSE]
               ELSE AnyMotionFrom(st, data.nightlights, 1)
    IN  ProcessFrom([st |-> any.st, lux_threshold |-> data.lux_threshold,
                     applied |-> <<>>],
                    settings, data.nightlights, 1)

\* lines 437-474; the too-bright branch starts the idle timer itself
SingleLight(st, settings) ==
    LET acc == [st |-> st, lux_threshold |-> data.lux_threshold, applied |-> <<>>]
        lux == get_lux_value(st, data.lux_sensor)
        acc1 == [acc EXCEPT !.st = lux.st]
        off == Command(acc1, settings, data.light, 0)
    IN  IF data.light = NoEntity THEN acc
        ELSE IF data.lux_sensor # NoEntity /\ Le(Whole(data.lux_threshold), lux.value)
        THEN IF off.st.raised \/ data.timer = NoEntity THEN off
             ELSE [off EXCEPT !.st = start_idle_timer(@, data.timer,
                                                      data.idle_timeout_mins * 60)]
        ELSE IF ~data.forced_dim
        THEN Command(acc1, settings, data.light, Boosted(settings))
        ELSE Command(acc1, settings, data.light, Dim(settings))

\* lines 347-480 after get_sun_times cached sun.sun
NightlightMain(settings) ==
    LET st == get_cached_state(Started, "sun.sun")
        body == IF data.has_nightlights THEN MultiLight(st, settings)
                ELSE SingleLight(st, settings)
    IN  IF settings.raised THEN [st |-> Raise(st), lux_threshold |-> data.lux_threshold,
                                 applied |-> <<>>]
        ELSE IF body.st.raised \/ data.timer = NoEntity THEN body
        ELSE [body EXCEPT !.st = start_idle_timer(@, data.timer,
                                                  data.idle_timeout_mins * 60)]

\* one run of smart_nightlight_controller.py at current_hour h
NightlightControllerRun(h) ==
    /\ run.script = "none"
    /\ \E settings \in {calculate_settings_by_time("nightlight", globals, args, h,
              get_dynamic_transitions_nightlight(globals, sun.local_sunrise,
                                                 sun.local_sunset))} :
       \E end \in {NightlightMain(settings)} :
        /\ STATE_CACHE' = ScriptEnd(end.st)
        /\ calls' = end.st.calls
        /\ run' = [script |-> "smart_nightlight_controller", outcome |-> Outcome(end.st),
                   applied |-> end.applied]
        /\ current_hour' = h
        /\ result' = settings
    /\ UNCHANGED <<hass, data, past, args>>
    /\ UNCHANGED calc

\* defaults of the data.get calls of the nightlight controller
NightlightGlobals ==
    [MIN_DAYLIGHT |-> 9, MAX_DAYLIGHT |-> 14, BRIGHTNESS_LOW |-> 10,
     BRIGHTNESS_HIGH |-> 100, COLOR_TEMP_LOW |-> 2000, COLOR_TEMP_HIGH |-> 3500]

DefaultLuxThreshold == 19

DefaultIdleTimeoutMins == 2

\* two nightlights: the hall's with or without a custom lux_threshold of 5,
\* the stairs' with or without one of 30 and possibly without its lux_sensor
HallSet ==
    {[light |-> "light.hall", binary_sensor |-> "binary_sensor.hall",
      lux_sensor |-> "sensor.hall_lux", lux_threshold |-> th] : th \in {None, 5}}

StairsSet ==
    {[light |-> "light.stairs", binary_sensor |-> "binary_sensor.stairs",
      lux_sensor |-> lx, lux_threshold |-> th] :
        lx \in {"sensor.stairs_lux", NoEntity}, th \in {None, 30}}

NightlightsSet ==
    {<<>>} \cup {<<a>> : a \in HallSet \cup StairsSet}
           \cup {<<a, b>> : a \in HallSet, b \in StairsSet}
           \cup {<<b, a>> : a \in HallSet, b \in StairsSet}

NightlightEntities ==
    {"light.hall", "binary_sensor.hall", "sensor.hall_lux", "light.stairs",
     "binary_sensor.stairs", "sensor.stairs_lux", "timer.night"}

\* forced_dim runs name the motion sensor that cleared
NightlightDataSet ==
    {[has_nightlights |-> TRUE, nightlights |-> n, light |-> NoEntity,
      lux_sensor |-> NoEntity, timer |-> t, lux_threshold |-> DefaultLuxThreshold,
      transition |-> DefaultTransition, idle_timeout_mins |-> DefaultIdleTimeoutMins,
      forced_dim |-> f[1], motion_source |-> f[2]] :
        n \in NightlightsSet, t \in {NoEntity, "timer.night"},
        f \in {<<FALSE, "binary_sensor.hall">>, <<TRUE, "binary_sensor.hall">>,
               <<TRUE, "binary_sensor.stairs">>}}
    \cup
    {[has_nightlights |-> FALSE, nightlights |-> <<>>, light |-> "light.hall",
      lux_sensor |-> l, timer |-> t, lux_threshold |-> DefaultLuxThreshold,
      transition |-> DefaultTransition, idle_timeout_mins |-> DefaultIdleTimeoutMins,
      forced_dim |-> f, motion_source |-> "binary_sensor.hall"] :
        l \in {NoEntity, "sensor.hall_lux"}, t \in {NoEntity, "timer.night"},
        f \in BOOLEAN}

\* the entities a run looks up
Used ==
    {data.light, data.lux_sensor, data.timer}
        \cup {data.nightlights[i].light : i \in 1..Len(data.nightlights)}
        \cup {data.nightlights[i].binary_sensor : i \in 1..Len(data.nightlights)}
        \cup {data.nightlights[i].lux_sensor : i \in 1..Len(data.nightlights)}

StatesIfUsed(entity_id, states) == IF entity_id \in Used THEN states ELSE {Missing}

LuxLevelSet == {Entity("3"), Entity("10"), Entity("25")}

\* single-light runs also with min_daylight = max_daylight = 9
InitNightlight ==
    /\ CalcIdle
    /\ sun = ExampleSun
    /\ args = DefaultArgs
    /\ current_hour = Whole(0)
    /\ result = NotCalled
    /\ data \in NightlightDataSet
    /\ globals \in IF data.has_nightlights THEN {NightlightGlobals}
                   ELSE {NightlightGlobals, [NightlightGlobals EXCEPT !.MAX_DAYLIGHT = 9]}
    /\ \E hall \in StatesIfUsed("light.hall",
                                {Entity("off"), LightOn(5, 2000), LightOn(26, 2000),
                                 LightOn(255, 3500)}),
          hall_motion \in StatesIfUsed("binary_sensor.hall", {Entity("on"), Entity("off")}),
          hall_lux \in StatesIfUsed("sensor.hall_lux", LuxLevelSet),
          stairs \in StatesIfUsed("light.stairs", {Entity("off")}),
          stairs_motion \in StatesIfUsed("binary_sensor.stairs",
                                         {Entity("on"), Entity("off")}),
          stairs_lux \in StatesIfUsed("sensor.stairs_lux", LuxLevelSet),
          timer \in StatesIfUsed("timer.night", {Entity("idle"), Entity("active")}) :
            hass = [e \in NightlightEntities |->
                       CASE e = "light.hall" -> hall
                         [] e = "binary_sensor.hall" -> hall_motion
                         [] e = "sensor.hall_lux" -> hall_lux
                         [] e = "light.stairs" -> stairs
                         [] e = "binary_sensor.stairs" -> stairs_motion
                         [] e = "sensor.stairs_lux" -> stairs_lux
                         [] e = "timer.night" -> timer]
    /\ STATE_CACHE = {}
    /\ calls = <<>>
    /\ run = [script |-> "none"]
    /\ past = <<>>

NextNightlight == \E h \in RunHourSet : NightlightControllerRun(h)

SpecNightlight == InitNightlight /\ [][NextNightlight]_vars

(***************************************************************************)
(* The override script (python_scripts/smart_light_override.py).  A        *)
(* behaviour is a sequence of runs with the same data, each overriding or  *)
(* restoring; Home Assistant handles the service calls of a run before the *)
(* next run starts.  past holds the earlier runs.                          *)
(***************************************************************************)
OverrideId == "room"

\* f"timer.override_{override_id}_timer"
timer_entity == "timer.override_room_timer"

\* f"input_select.override_{override_id}_automations"
persistant_list_entity == "input_select.override_room_automations"

NoDuration == "None"

InputSelect(options) == [exists |-> TRUE, state |-> "None", options |-> options]

AutomationCall(service, automation_id) ==
    [domain |-> "automation", service |-> service, entity_id |-> automation_id]

SetOptions(entity_id, options) ==
    [domain |-> "input_select", service |-> "set_options", entity_id |-> entity_id,
     options |-> options]

\* line 108 passes the list persistant_list as entity_id, not the input_select
ClearOptions(persistant_list) ==
    [domain |-> "input_select", service |-> "set_options", entity_id |-> NoEntity,
     entity_ids |-> persistant_list, options |-> <<"placeholder">>]

SceneTurnOn(scene) == [domain |-> "scene", service |-> "turn_on", entity_id |-> scene]

\* the lights given here carry brightness_pct only
LightTurnOn(light) ==
    [domain |-> "light", service |-> "turn_on", entity_id |-> light.entity_id,
     brightness_pct |-> light.brightness_pct]

LightTurnOff(entity_id) ==
    [domain |-> "light", service |-> "turn_off", entity_id |-> entity_id]

RECURSIVE CacheAll(_, _)
CacheAll(st, entity_ids) ==
    IF entity_ids = <<>> THEN st
    ELSE CacheAll(get_cached_state(st, Head(entity_ids)), Tail(entity_ids))

\* automation.turn_off for each automation that exists, in order
RECURSIVE TurnOffEach(_, _)
TurnOffEach(st, automation_ids) ==
    IF automation_ids = <<>> THEN st
    ELSE TurnOffEach(IF hass[Head(automation_ids)].exists
                     THEN Service(st, AutomationCall("turn_off", Head(automation_ids)))
                     ELSE st,
                     Tail(automation_ids))

active_automations_found(automation_ids) ==
    SelectSeq(automation_ids, LAMBDA a : hass[a].exists)

active_automations(automation_ids) ==
    SelectSeq(automation_ids, LAMBDA a : hass[a].exists /\ hass[a].state = "on")

deactivate_automations(st, automation_ids, list_entity) ==
    Service(TurnOffEach(st, automation_ids),
            SetOptions(list_entity, active_automations(automation_ids)))

RECURSIVE TurnOnEach(_, _)
TurnOnEach(st, persistant_list) ==
    IF persistant_list = <<>> THEN st
    ELSE TurnOnEach(Service(st, AutomationCall("turn_on", Head(persistant_list))),
                    Tail(persistant_list))

\* a missing input_select raises AttributeError in the first try and leaves
\* persistant_list unbound for the second: both are logged, nothing is called
activate_automations(st, list_entity) ==
    IF ~hass[list_entity].exists THEN st
    ELSE Service(TurnOnEach(st, hass[list_entity].options),
                 ClearOptions(hass[list_entity].options))

RECURSIVE activate_scenes(_, _)
activate_scenes(st, scenes) ==
    IF scenes = <<>> THEN st
    ELSE activate_scenes(IF hass[Head(scenes)].exists
                         THEN Service(st, SceneTurnOn(Head(scenes))) ELSE st,
                         Tail(scenes))

RECURSIVE activate_lights(_, _)
activate_lights(st, lights) ==
    IF lights = <<>> THEN st
    ELSE activate_lights(IF hass[Head(lights).entity_id].exists
                         THEN Service(st, LightTurnOn(Head(lights))) ELSE st,
                         Tail(lights))

\* scene.get('entity_id') on a scene given as a string: AttributeError, outside
\* any try
deactivate_scenes(st, scenes) == IF scenes = <<>> THEN st ELSE Raise(st)

RECURSIVE deactivate_lights(_, _)
deactivate_lights(st, lights) ==
    IF lights = <<>> THEN st
    ELSE deactivate_lights(IF hass[Head(lights).entity_id].exists
                           THEN Service(st, LightTurnOff(Head(lights).entity_id)) ELSE st,
                           Tail(lights))

set_duration_timer(st, timer, duration) == Service(st, TimerStart(timer, duration))

cancel_duration_timer(st, timer) ==
    IF hass[timer].exists /\ hass[timer].state = "active"
    THEN Service(st, TimerCancel(timer)) ELSE st

RECURSIVE EntityIds(_)
EntityIds(lights) ==
    IF lights = <<>> THEN <<>> ELSE <<Head(lights).entity_id>> \o EntityIds(Tail(lights))

\* lines 235-246
Preload ==
    CacheAll(Started, data.automation_ids \o <<timer_entity, persistant_list_entity>>
                        \o data.scenes \o EntityIds(data.lights))

lighting_both(st, scenes, lights) == activate_lights(activate_scenes(st, scenes), lights)

\* lines 257-262
lighting(st, scenes, lights) ==
    IF scenes # <<>> THEN activate_scenes(st, scenes)
    ELSE IF lights # <<>> THEN activate_lights(st, lights)
    ELSE st

\* lines 250-267
Override(st) ==
    LET s1 == deactivate_automations(st, data.automation_ids, persistant_list_entity)
        s2 == lighting(s1, data.scenes, data.lights)
    IN  IF data.duration # NoDuration THEN set_duration_timer(s2, timer_entity, data.duration)
        ELSE s2

\* lines 269-282
Restore(st) ==
    LET s1 == deactivate_scenes(st, data.scenes)
    IN  IF s1.raised THEN s1
        ELSE activate_automations(
                 cancel_duration_timer(deactivate_lights(s1, data.lights), timer_entity),
                 persistant_list_entity)

\* Home Assistant handling one service call: automations are enabled and
\* disabled, the input_select takes its new options (an empty list only if
\* accepts_empty), the timer starts and stops
Handle(h, c, accepts_empty) ==
    IF c.entity_id \notin DOMAIN h THEN h
    ELSE IF ~h[c.entity_id].exists THEN h
    ELSE CASE c.domain = "automation" ->
                [h EXCEPT ![c.entity_id].state =
                              IF c.service = "turn_on" THEN "on" ELSE "off"]
           [] c.domain = "input_select" ->
                IF c.options # <<>> \/ accepts_empty
                THEN [h EXCEPT ![c.entity_id].options = c.options] ELSE h
           [] c.domain = "timer" ->
                [h EXCEPT ![c.entity_id].state =
                              IF c.service = "start" THEN "active" ELSE "idle"]
           [] OTHER -> h

RECURSIVE HandleAll(_, _, _)
HandleAll(h, cs, accepts_empty) ==
    IF cs = <<>> THEN h
    ELSE HandleAll(Handle(h, Head(cs), accepts_empty), Tail(cs), accepts_empty)

RunCount == Len(past) + IF run.script = "none" THEN 0 ELSE 1

\* one run of smart_light_override.py
OverrideRun(is_overriding, accepts_empty) ==
    /\ run.script \in {"none", "smart_light_override"}
    /\ RunCount < MaxRuns
    /\ \E st \in {IF is_overriding THEN Override(Preload) ELSE Restore(Preload)} :
        /\ STATE_CACHE' = ScriptEnd(st)
        /\ calls' = st.calls
        /\ run' = [script |-> "smart_light_override", outcome |-> Outcome(st),
                   is_overriding |-> is_overriding, before |-> hass]
        /\ hass' = HandleAll(hass, st.calls, accepts_empty)
    /\ past' = IF run.script = "none" THEN past
               ELSE Append(past, [is_overriding |-> run.is_overriding,
                                  outcome |-> run.outcome, before |-> run.before,
                                  calls |-> calls])
    /\ UNCHANGED <<data, args, current_hour, result>>
    /\ UNCHANGED calc

AutomationIdsSet ==
    {<<>>, <<"automation.a">>, <<"automation.a", "automation.b">>}

OverrideDataSet ==
    {[override_id |-> OverrideId, automation_ids |-> a, scenes |-> s, lights |-> l,
      duration |-> d] :
        a \in AutomationIdsSet,
        s \in {<<>>, <<"scene.movie">>, <<"scene.movie", "scene.gone">>},
        l \in {<<>>, <<[entity_id |-> "light.room", brightness_pct |-> 40]>>},
        d \in {NoDuration, "00:30:00"}}

OverrideEntities ==
    {"automation.a", "automation.b", timer_entity, persistant_list_entity,
     "scene.movie", "scene.gone", "light.room"}

InitOverride ==
    /\ CalcIdle
    /\ sun = ExampleSun
    /\ globals = DefaultGlobals
    /\ args = DefaultArgs
    /\ current_hour = Whole(0)
    /\ result = NotCalled
    /\ data \in OverrideDataSet
    /\ \E a \in IF Len(data.automation_ids) >= 1
                THEN {Missing, Entity("on"), Entity("off")} ELSE {Missing},
          b \in IF Len(data.automation_ids) >= 2
                THEN {Entity("on"), Entity("off")} ELSE {Missing},
          timer \in {Entity("idle"), Entity("active")},
          list \in {Missing, InputSelect(<<"placeholder">>)} :
            hass = [e \in OverrideEntities |->
                       CASE e = "automation.a" -> a
                         [] e = "automation.b" -> b
                         [] e = timer_entity -> timer
                         [] e = persistant_list_entity -> list
                         [] e = "scene.movie" -> Entity("unknown")
                         [] e = "scene.gone" -> Missing
                         [] e = "light.room" -> Entity("on")]
    /\ STATE_CACHE = {}
    /\ calls = <<>>
    /\ run = [script |-> "none"]
    /\ past = <<>>

NextOverride ==
    \E is_overriding \in BOOLEAN, accepts_empty \in BOOLEAN :
        OverrideRun(is_overriding, accepts_empty)

SpecOverride == InitOverride /\ [][NextOverride]_vars

(***************************************************************************)
(* Vocabulary of the properties                                            *)
(***************************************************************************)
ValidDaylightRange == params.min_daylight < params.max_daylight

Called(name, variant) == op.name = name /\ op.variant = variant

\* a call of get_dynamic_transitions, direct or from calculate_settings_by_time,
\* returned boundaries
HasBoundaries == op.name \in {"get_dynamic_transitions", "calculate_settings_by_time"}
                    /\ ~transitions.raised

Calculated(variant) == Called("calculate_settings_by_time", variant) /\ ~transitions.raised

daylight_hours == Sub(sun.local_sunset, sun.local_sunrise)

\* the globals the variant that ran reads
RunGlobals == GlobalsOf(op.variant, globals)

OrderedChain(t) ==
    /\ Lt(t.morning_start, t.morning_end)
    /\ t.morning_end = t.day_start
    /\ Lt(t.day_start, t.day_end)
    /\ t.day_end = t.evening_start
    /\ Lt(t.evening_start, t.evening_end)
    /\ t.evening_end = t.twilight_start
    /\ Lt(t.twilight_start, t.twilight_end)

\* the first mode of ModeOrder among a set of modes, "None" for the empty set
EarliestOf(modes) ==
    IF modes = {} THEN "None"
    ELSE ModeOrder[CHOOSE i \in 1..Len(ModeOrder) :
                        /\ ModeOrder[i] \in modes
                        /\ \A j \in 1..(i - 1) : ModeOrder[j] \notin modes]

InInterval(h, start, end) == Le(start, h) /\ Lt(h, end)

ElementsOfModeOrder == {ModeOrder[i] : i \in 1..Len(ModeOrder)}

(***************************************************************************)
(* C1: scale_offset returns exactly max_offset for every daylight_hours at *)
(* or below min_daylight and exactly min_offset for every daylight_hours   *)
(* at or above max_daylight, whenever max_daylight > min_daylight.         *)
(***************************************************************************)
C1_ClampEnds ==
    (call.called /\ ValidDaylightRange) =>
        /\ ~call.out.raised
        /\ Le(call.daylight_hours, Whole(params.min_daylight))
              => call.out.value = params.max_offset
        /\ Le(Whole(params.max_daylight), call.daylight_hours)
              => call.out.value = params.min_offset

\* a call below min_daylight followed by a call above max_daylight, with
\* distinct offsets
C1_Witness ==
    /\ prev.called /\ call.called /\ ValidDaylightRange
    /\ params.min_offset # params.max_offset
    /\ Lt(prev.daylight_hours, Whole(params.min_daylight))
    /\ Lt(Whole(params.max_daylight), call.daylight_hours)
    /\ prev.out.value = params.max_offset
    /\ call.out.value = params.min_offset

(***************************************************************************)
(* C2: scale_offset is monotonic non-increasing in daylight_hours and its  *)
(* result lies in [min_offset, max_offset]: for two calls with d1 <= d2,   *)
(* max_daylight > min_daylight and max_offset >= min_offset,               *)
(* min_offset <= scale_offset(d2) <= scale_offset(d1) <= max_offset.       *)
(***************************************************************************)
C2_MonotonicBounded ==
    (/\ prev.called /\ call.called /\ ValidDaylightRange
     /\ Le(params.min_offset, params.max_offset)
     /\ Le(prev.daylight_hours, call.daylight_hours)) =>
        /\ Le(params.min_offset, call.out.value)
        /\ Le(call.out.value, prev.out.value)
        /\ Le(prev.out.value, params.max_offset)

\* two calls strictly inside the daylight range with strictly decreasing,
\* strictly interior results
C2_Witness ==
    /\ prev.called /\ call.called /\ ValidDaylightRange
    /\ Lt(Whole(params.min_daylight), prev.daylight_hours)
    /\ Lt(prev.daylight_hours, call.daylight_hours)
    /\ Lt(call.daylight_hours, Whole(params.max_daylight))
    /\ Lt(params.min_offset, call.out.value)
    /\ Lt(call.out.value, prev.out.value)
    /\ Lt(prev.out.value, params.max_offset)

(***************************************************************************)
(* C3: with MIN_DAYLIGHT = 9 and MAX_DAYLIGHT = 14, for every sunrise and  *)
(* sunset with sunset - sunrise in [9, 14], the boundaries every variant   *)
(* of get_dynamic_transitions returns satisfy morning_start < morning_end  *)
(* = day_start < day_end = evening_start < evening_end = twilight_start    *)
(* < twilight_end.                                                         *)
(***************************************************************************)
C3_OrderedInTunedRange ==
    (/\ HasBoundaries
     /\ RunGlobals.MIN_DAYLIGHT = 9 /\ RunGlobals.MAX_DAYLIGHT = 14
     /\ Le(Whole(9), daylight_hours) /\ Le(daylight_hours, Whole(14))) =>
        OrderedChain(transitions)

\* the nightlight variant on a day strictly inside the range
C3_Witness ==
    /\ Called("get_dynamic_transitions", "nightlight") /\ ~transitions.raised
    /\ globals.MIN_DAYLIGHT = 9 /\ globals.MAX_DAYLIGHT = 14
    /\ Lt(Whole(9), daylight_hours) /\ Lt(daylight_hours, Whole(14))
    /\ OrderedChain(transitions)
    /\ Lt(transitions.morning_end, Add(sun.local_sunrise, Whole(1)))

(***************************************************************************)
(* C4: in calculate_settings_by_time, for every current_hour in [0, 24)    *)
(* and boundaries that satisfy the ordered chain, exactly one of the five  *)
(* segment conditions is true.                                             *)
(***************************************************************************)
C4_ExactlyOneCondition ==
    (/\ op.name = "calculate_settings_by_time" /\ ~transitions.raised
     /\ OrderedChain(transitions)) =>
        Cardinality(conds) = 1

\* an hour before morning_start on an ordered chain: night only
C4_Witness ==
    /\ Calculated("light")
    /\ OrderedChain(transitions)
    /\ Lt(current_hour, transitions.morning_start)
    /\ conds = {"night"}

(***************************************************************************)
(* C5 (as stated): calculate_settings_by_time tests the segments in the    *)
(* order morning, day, evening, twilight, night, each as a half-open       *)
(* interval [start, end), and returns the first that matches; a            *)
(* current_hour equal to morning_end is classified as day; when several    *)
(* conditions hold the earlier segment wins.                               *)
(***************************************************************************)
HalfOpenFirstMatch ==
    /\ "morning" \in conds
          <=> InInterval(current_hour, transitions.morning_start, transitions.morning_end)
    /\ "day" \in conds
          <=> InInterval(current_hour, transitions.day_start, transitions.day_end)
    /\ "evening" \in conds
          <=> InInterval(current_hour, transitions.evening_start, transitions.evening_end)
    /\ "twilight" \in conds
          <=> InInterval(current_hour, transitions.twilight_start, transitions.twilight_end)
    /\ result.mode = EarliestOf(conds)

C5_MorningEndIsDay ==
    Calculated("light") =>
        /\ HalfOpenFirstMatch
        /\ current_hour = transitions.morning_end => result.mode = "day"

(***************************************************************************)
(* C5 (amended): the segments are tested in the order morning, day,        *)
(* evening, twilight, night, each as a half-open interval, and the first   *)
(* that matches is returned; a current_hour equal to morning_end is never  *)
(* classified as morning, and is classified as day whenever morning_end <  *)
(* day_end (sunset more than two hours after sunrise).                     *)
(***************************************************************************)
C5_MorningEndIsDayWhenDayNonEmpty ==
    Calculated("light") =>
        /\ HalfOpenFirstMatch
        /\ current_hour = transitions.morning_end =>
              /\ result.mode # "morning"
              /\ Lt(transitions.morning_end, transitions.day_end) => result.mode = "day"

\* current_hour = morning_end on a day longer than two hours: day, not morning
C5_Witness ==
    /\ Calculated("light")
    /\ current_hour = transitions.morning_end
    /\ Lt(transitions.morning_end, transitions.day_end)
    /\ conds = {"day"}
    /\ result.mode = "day"

(***************************************************************************)
(* C6: for every current_hour in [0, 24) and every sunrise and sunset with *)
(* sunset > sunrise, the light controller's calculate_settings_by_time     *)
(* returns mode night if and only if current_hour >= twilight_end or       *)
(* current_hour < morning_start, also when twilight_end exceeds 24 or      *)
(* morning_start is below 0.                                               *)
(***************************************************************************)
C6_NightIsComplement ==
    (Calculated("light") /\ Lt(sun.local_sunrise, sun.local_sunset)) =>
        (result.mode = "night"
            <=> \/ Le(transitions.twilight_end, current_hour)
                \/ Lt(current_hour, transitions.morning_start))

\* current_hour = 2.0 with morning_start = 6.25 is night
C6_Witness ==
    /\ Calculated("light")
    /\ sun = ExampleSun
    /\ current_hour = Whole(2)
    /\ transitions.morning_start = Rat(25, 4)
    /\ result.mode = "night"

(***************************************************************************)
(* C7: with sunrise 7.25, sunset 19.2 and the default configuration,       *)
(* day_start = morning_end and day_end = 19.2, and current_hour = 13.5     *)
(* yields mode day, brightness_pct 100, color_temp_kelvin 4500; every hour *)
(* in [day_start, day_end) yields brightness_pct = BRIGHTNESS_HIGH and     *)
(* color_temp_kelvin = COLOR_TEMP_HIGH.                                    *)
(***************************************************************************)
C7_DayPreset ==
    /\ (/\ op.variant = "light" /\ HasBoundaries
        /\ sun = ExampleSun /\ globals = DefaultGlobals) =>
            /\ transitions.day_start = transitions.morning_end
            /\ transitions.day_end = Rat(96, 5)
    /\ (/\ Calculated("light") /\ sun = ExampleSun /\ globals = DefaultGlobals
        /\ current_hour = Rat(27, 2)) =>
            /\ result.mode = "day"
            /\ result.brightness_pct = 100
            /\ result.color_temp_kelvin = 4500
    /\ (/\ Calculated("light")
        /\ InInterval(current_hour, transitions.day_start, transitions.day_end)) =>
            /\ result.mode = "day"
            /\ result.brightness_pct = globals.BRIGHTNESS_HIGH
            /\ result.color_temp_kelvin = globals.COLOR_TEMP_HIGH

\* the example: 13.5 on the 7.25 / 19.2 day with defaults
C7_Witness ==
    /\ Calculated("light")
    /\ sun = ExampleSun /\ globals = DefaultGlobals
    /\ current_hour = Rat(27, 2)
    /\ result.mode = "day"
    /\ result.brightness_pct = 100

(***************************************************************************)
(* C8: in the light controller the segments are laid out as its module     *)
(* documentation states, for every sunrise and sunset: morning from 1 hour *)
(* before to 2 hours after sunrise, day from 2 hours after sunrise to      *)
(* sunset, evening from sunset to 2 hours after sunset, twilight from 2 to *)
(* 3 hours after sunset, night from 3 hours after sunset to 1 hour before  *)
(* sunrise.                                                                *)
(***************************************************************************)
C8_DocumentedLayout ==
    (op.variant = "light" /\ HasBoundaries) =>
        /\ transitions.morning_start = Sub(sun.local_sunrise, Whole(1))
        /\ transitions.morning_end = Add(sun.local_sunrise, Whole(2))
        /\ transitions.day_start = Add(sun.local_sunrise, Whole(2))
        /\ transitions.day_end = sun.local_sunset
        /\ transitions.evening_start = sun.local_sunset
        /\ transitions.evening_end = Add(sun.local_sunset, Whole(2))
        /\ transitions.twilight_start = Add(sun.local_sunset, Whole(2))
        /\ transitions.twilight_end = Add(sun.local_sunset, Whole(3))

(***************************************************************************)
(* C9: every preset the light controller's calculate_settings_by_time      *)
(* returns has idle_timeout_sec = 60 * the matched segment's minutes:      *)
(* idle_timeout_day for day, idle_timeout_evening for evening,             *)
(* idle_timeout_night for night, idle_timeout_day // 2 for morning,        *)
(* idle_timeout_evening // 2 for twilight.                                 *)
(***************************************************************************)
C9_IdleTimeoutSeconds ==
    (Calculated("light") /\ result.mode # "None") =>
        result.idle_timeout_sec =
            60 * (CASE result.mode = "day"      -> args.idle_timeout_day
                    [] result.mode = "evening"  -> args.idle_timeout_evening
                    [] result.mode = "night"    -> args.idle_timeout_night
                    [] result.mode = "morning"  -> args.idle_timeout_day \div 2
                    [] result.mode = "twilight" -> args.idle_timeout_evening \div 2)

\* twilight with an odd evening timeout: 7 // 2 = 3 minutes = 180 seconds
C9_Witness ==
    /\ Calculated("light")
    /\ result.mode = "twilight"
    /\ args.idle_timeout_evening = 7
    /\ result.idle_timeout_sec = 180

(***************************************************************************)
(* C10: for brightness_low and brightness_high in 0..100 and               *)
(* nightlight_brightness_pct absent or in 0..100, every preset the light   *)
(* controller's calculate_settings_by_time returns has an integer          *)
(* brightness_pct in [0, 100], and for morning, evening and twilight       *)
(* brightness_pct >= brightness_low and color_temp_kelvin >=               *)
(* color_temp_kelvin_low.                                                  *)
(***************************************************************************)
C10_BrightnessRangeAndFloor ==
    (/\ Calculated("light") /\ result.mode # "None"
     /\ globals.BRIGHTNESS_LOW \in 0..100 /\ globals.BRIGHTNESS_HIGH \in 0..100
     /\ args.nightlight_brightness_pct \in {None} \cup 0..100) =>
        /\ result.brightness_pct \in 0..100
        /\ result.mode \in {"morning", "evening", "twilight"} =>
              /\ result.brightness_pct >= globals.BRIGHTNESS_LOW
              /\ result.color_temp_kelvin >= globals.COLOR_TEMP_LOW

\* an evening where both floors apply: the fractions of the high values are
\* below the configured minimums
C10_Witness ==
    /\ Calculated("light")
    /\ result.mode = "evening"
    /\ IntOfProduct(globals.BRIGHTNESS_HIGH, 70) < globals.BRIGHTNESS_LOW
    /\ IntOfProduct(globals.COLOR_TEMP_HIGH, 65) < globals.COLOR_TEMP_LOW
    /\ result.brightness_pct = globals.BRIGHTNESS_LOW
    /\ result.color_temp_kelvin = globals.COLOR_TEMP_LOW

(***************************************************************************)
(* C25: calculate_settings_by_time is total: for every current_hour in     *)
(* [0, 24) and every sunrise and sunset in [0, 24), sunset at or before    *)
(* sunrise and daylight shorter than the morning window included, with     *)
(* MIN_DAYLIGHT < MAX_DAYLIGHT, it returns the preset of one of the five   *)
(* segments and never falls through without a result.                      *)
(***************************************************************************)
C25_AlwaysReturnsPreset ==
    op.name = "calculate_settings_by_time" =>
        /\ ~result.raised
        /\ result.mode \in ElementsOfModeOrder
        /\ result.mode \in conds

\* sunset before sunrise: the boundaries are not an ordered chain, evening
\* and night both match, and the evening preset is returned
C25_Witness ==
    /\ Calculated("light")
    /\ Lt(sun.local_sunset, sun.local_sunrise)
    /\ ~OrderedChain(transitions)
    /\ conds = {"evening", "night"}
    /\ result.mode = "evening"

(***************************************************************************)
(* C11: the preset's light_entity is the nightlight entity only for night  *)
(* and only when a nightlight entity is configured, and the primary light  *)
(* entity for morning, day, evening, twilight and for night without a      *)
(* nightlight entity; the night brightness is nightlight_brightness_pct    *)
(* when it is configured and brightness_low otherwise.                     *)
(***************************************************************************)
C11_NightEntityAndBrightness ==
    (Calculated("light") /\ result.mode # "None") =>
        /\ result.light_entity =
              IF result.mode = "night" /\ args.nightlight_entity # NoEntity
              THEN args.nightlight_entity ELSE args.light_entity
        /\ result.mode = "night" =>
              result.brightness_pct =
                  IF args.nightlight_brightness_pct # None
                  THEN args.nightlight_brightness_pct ELSE globals.BRIGHTNESS_LOW

(***************************************************************************)
(* C17: a call of scale_offset with max_daylight <= min_daylight (equal or *)
(* reversed) ends in an error and never returns a numeric offset.          *)
(***************************************************************************)
C17_InvalidRangeIsError ==
    (call.called /\ params.max_daylight <= params.min_daylight) => call.out.raised

LightRan == run.script = "smart_light_controller"

\* the state of a configured, existing entity is s
StateIs(entity_id, s) ==
    entity_id # NoEntity /\ hass[entity_id].exists /\ hass[entity_id].state = s

LightCalls == {i \in 1..Len(calls) : calls[i].domain = "light"}

TimerCalls == {i \in 1..Len(calls) : calls[i].domain = "timer"}

(***************************************************************************)
(* C13: in a run of the light controller, if the lights_for_lux_check      *)
(* group is 'off' and the lux value is above lux_max the run issues no     *)
(* light call and no timer call; if the group is 'on' or                   *)
(* lights_for_lux_check is not configured the lux value never prevents     *)
(* activation; a missing, unknown, unavailable or non-numeric lux sensor   *)
(* counts as 0 lux.                                                        *)
(***************************************************************************)
C13_TooBrightSkips ==
    LightRan =>
        /\ (StateIs(data.lights_for_lux_check, "off") /\ Lt(data.lux_max, run.lux_value))
              => (LightCalls = {} /\ TimerCalls = {})
        /\ (data.lights_for_lux_check = NoEntity \/ StateIs(data.lights_for_lux_check, "on"))
              => run.passed
        /\ (\/ data.lux_sensor = NoEntity
            \/ ~hass[data.lux_sensor].exists
            \/ hass[data.lux_sensor].state \notin NumberTextSet)
              => run.lux_value = Whole(0)

(***************************************************************************)
(* C14: in a run of the light controller that passes the lux gate with     *)
(* motion 'on' and an existing timer entity, the timer calls come after    *)
(* every light call and are exactly one timer.start whose duration is the  *)
(* HH:MM:SS of the preset's idle_timeout_sec, preceded by one timer.cancel *)
(* if and only if the timer was 'active' or 'paused'; a run whose timer    *)
(* entity does not exist issues no timer call.                             *)
(***************************************************************************)
MotionOn == data.binary_sensor = NoEntity \/ StateIs(data.binary_sensor, "on")

TimerExists == data.timer # NoEntity /\ hass[data.timer].exists

IsIdleTimeout(duration) ==
    /\ duration[1] * 3600 + duration[2] * 60 + duration[3] = result.idle_timeout_sec
    /\ duration[2] \in 0..59
    /\ duration[3] \in 0..59

C14_TimerArmedOrRestarted ==
    LightRan =>
        /\ (run.passed /\ MotionOn /\ TimerExists) =>
              LET timer_calls == SelectSeq(calls, LAMBDA c : c.domain = "timer")
                  restart == hass[data.timer].state \in {"active", "paused"}
                  start == timer_calls[Len(timer_calls)]
              IN  /\ Len(timer_calls) = IF restart THEN 2 ELSE 1
                  /\ restart => timer_calls[1] = TimerCancel(data.timer)
                  /\ start.service = "start"
                  /\ start.entity_id = data.timer
                  /\ IsIdleTimeout(start.duration)
                  /\ \A i \in LightCalls, j \in TimerCalls : i < j
        /\ ~TimerExists => TimerCalls = {}

\* an active timer restarted after the light was turned on for the night
\* preset (2 minutes)
C14_Witness ==
    /\ LightRan
    /\ MotionOn
    /\ StateIs(data.timer, "active")
    /\ Len(calls) = 3
    /\ calls[1].service = "turn_on"
    /\ calls[2] = TimerCancel("timer.room")
    /\ calls[3] = TimerStart("timer.room", <<0, 2, 0>>)

\* a run that passed the lux gate and found the motion sensor not 'on'
MotionOffRan ==
    /\ LightRan
    /\ run.passed
    /\ run.outcome = "returned"
    /\ data.binary_sensor # NoEntity
    /\ ~StateIs(data.binary_sensor, "on")
    /\ TimerExists

(***************************************************************************)
(* C22: in a light-controller run that passes the lux gate with the motion *)
(* sensor not 'on', if the idle timer is 'idle' or 'paused' and the        *)
(* segment's light entity is 'on', a light.turn_off call is issued for it; *)
(* if the idle timer is 'active', no light call is issued.                 *)
(***************************************************************************)
C22_MotionOffTurnsOff ==
    MotionOffRan =>
        /\ (/\ hass[data.timer].state \in {"idle", "paused"}
            /\ StateIs(result.light_entity, "on"))
                => \E i \in LightCalls :
                        /\ calls[i].service = "turn_off"
                        /\ calls[i].entity_id = result.light_entity
        /\ hass[data.timer].state = "active" => LightCalls = {}

(***************************************************************************)
(* Vocabulary of the properties of the nightlight controller's runs        *)
(***************************************************************************)
\* a run in multi-light mode that reached its end
MultiLightRan ==
    /\ run.script = "smart_nightlight_controller"
    /\ data.has_nightlights
    /\ run.outcome = "returned"

FullyConfigured(nightlight) ==
    /\ nightlight.light # NoEntity
    /\ nightlight.binary_sensor # NoEntity
    /\ nightlight.lux_sensor # NoEntity

\* a nightlight's own threshold: its custom lux_threshold, else the global one
OwnThreshold(nightlight) ==
    IF nightlight.lux_threshold # None THEN nightlight.lux_threshold
    ELSE data.lux_threshold

LuxOf(nightlight) == float(hass[nightlight.lux_sensor].state)

BelowOwnThreshold(nightlight) == Lt(LuxOf(nightlight), Whole(OwnThreshold(nightlight)))

\* the run called apply_light_settings for the light with this brightness
CommandedTo(light_entity, brightness_pct) ==
    \E k \in 1..Len(run.applied) :
        run.applied[k] = [light_entity |-> light_entity, brightness_pct |-> brightness_pct]

(***************************************************************************)
(* C19: in the nightlight controller's multi-light mode without            *)
(* forced_dim, every fully configured nightlight whose lux is below its    *)
(* threshold is commanded to boosted_pct if its own motion sensor is       *)
(* active and to brightness_pct otherwise.                                 *)
(***************************************************************************)
C19_BoostOwnMotionElseDim ==
    (MultiLightRan /\ ~data.forced_dim) =>
        \A i \in 1..Len(data.nightlights) :
            LET nightlight == data.nightlights[i]
            IN  (FullyConfigured(nightlight) /\ BelowOwnThreshold(nightlight)) =>
                    CommandedTo(nightlight.light,
                                IF hass[nightlight.binary_sensor].state = "on"
                                THEN result.boosted_pct ELSE result.brightness_pct)

(***************************************************************************)
(* C20: in the nightlight controller's multi-light mode every fully        *)
(* configured nightlight is treated as too bright (commanded to 0) exactly *)
(* when its lux is at or above its own threshold: its custom lux_threshold *)
(* when it has one, the global lux_threshold otherwise, whatever the other *)
(* entries of the list and their order.                                    *)
(***************************************************************************)
C20_OwnLuxThreshold ==
    MultiLightRan =>
        \A i \in 1..Len(data.nightlights) :
            LET nightlight == data.nightlights[i]
            IN  FullyConfigured(nightlight) =>
                    (CommandedTo(nightlight.light, 0) <=> ~BelowOwnThreshold(nightlight))

\* a multi-light run in forced_dim mode
ForcedDimRan == MultiLightRan /\ data.forced_dim

\* the light belongs to the nightlight whose motion sensor is motion_source
IsMotionSourceLight(light_entity) ==
    \E n \in 1..Len(data.nightlights) :
        /\ data.nightlights[n].light = light_entity
        /\ data.nightlights[n].binary_sensor = data.motion_source

TurnedOff(light_entity) ==
    \E i \in 1..Len(calls) :
        /\ calls[i].domain = "light"
        /\ calls[i].service = "turn_off"
        /\ calls[i].entity_id = light_entity

\* single-light mode: the global lux sensor reads at or above lux_threshold
SingleTooBright ==
    /\ data.light # NoEntity
    /\ data.lux_sensor # NoEntity
    /\ Le(Whole(data.lux_threshold), float(hass[data.lux_sensor].state))

(***************************************************************************)
(* C23: in a run of the nightlight controller, every light whose lux value *)
(* is at or above its threshold and that is currently 'on' receives a      *)
(* light.turn_off call, in multi-light and in single-light mode, whatever  *)
(* its current brightness and color temperature.                           *)
(***************************************************************************)
C23_TooBrightTurnsOff ==
    (run.script = "smart_nightlight_controller" /\ run.outcome = "returned") =>
        IF data.has_nightlights
        THEN \A i \in 1..Len(data.nightlights) :
                LET nightlight == data.nightlights[i]
                IN  (/\ FullyConfigured(nightlight)
                     /\ ~BelowOwnThreshold(nightlight)
                     /\ StateIs(nightlight.light, "on"))
                        => TurnedOff(nightlight.light)
        ELSE (SingleTooBright /\ StateIs(data.light, "on")) => TurnedOff(data.light)

(***************************************************************************)
(* Vocabulary of the properties of the override script's runs              *)
(***************************************************************************)
OverrideRan == run.script = "smart_light_override" /\ run.is_overriding

\* the latest run restored, and the run before it overrode
RestoreAfterOverride ==
    /\ run.script = "smart_light_override"
    /\ ~run.is_overriding
    /\ past # <<>>
    /\ past[Len(past)].is_overriding

Issued(cs, c) == \E i \in 1..Len(cs) : cs[i] = c

IssuedService(cs, domain, service) ==
    \E i \in 1..Len(cs) : cs[i].domain = domain /\ cs[i].service = service

ElementsOf(seq) == {seq[i] : i \in 1..Len(seq)}

(***************************************************************************)
(* C15: for an override run followed by a restore run with the same        *)
(* override_id, every existing automation of automation_ids receives       *)
(* automation.turn_off in the override run, and the automations that       *)
(* receive automation.turn_on in the restore run are exactly the           *)
(* automation_ids that existed and were 'on' when the override run         *)
(* started.                                                                *)
(***************************************************************************)
C15_RestoresWhatWasOn ==
    RestoreAfterOverride =>
        LET override == past[Len(past)]
            turned_on == {calls[i].entity_id :
                            i \in {j \in 1..Len(calls) :
                                      /\ calls[j].domain = "automation"
                                      /\ calls[j].service = "turn_on"}}
        IN  /\ \A a \in ElementsOf(data.automation_ids) :
                  override.before[a].exists
                      => Issued(override.calls, AutomationCall("turn_off", a))
            /\ turned_on = {a \in ElementsOf(data.automation_ids) :
                              /\ override.before[a].exists
                              /\ override.before[a].state = "on"}

(***************************************************************************)
(* C18: in an override run, when a non-empty scenes list is given          *)
(* scene.turn_on is issued for each existing scene and no light.turn_on is *)
(* issued; lights are applied (light.turn_on for each existing light) only *)
(* when scenes is empty; the override timer is started if and only if a    *)
(* duration is given.                                                      *)
(***************************************************************************)
C18_ScenesInsteadOfLights ==
    OverrideRan =>
        /\ data.scenes # <<>> =>
              /\ \A scene \in ElementsOf(data.scenes) :
                    run.before[scene].exists => Issued(calls, SceneTurnOn(scene))
              /\ ~IssuedService(calls, "light", "turn_on")
        /\ data.scenes = <<>> =>
              \A light \in ElementsOf(data.lights) :
                  run.before[light.entity_id].exists => Issued(calls, LightTurnOn(light))
        /\ IssuedService(calls, "timer", "start") <=> data.duration # NoDuration

\* scenes and lights both given, with a duration: the existing scene is
\* activated, the lights are left alone, the timer is started
C18_Witness ==
    /\ OverrideRan
    /\ data.scenes = <<"scene.movie", "scene.gone">>
    /\ data.lights # <<>>
    /\ data.automation_ids = <<>>
    /\ calls = <<SetOptions(persistant_list_entity, <<>>), SceneTurnOn("scene.movie"),
                 TimerStart(timer_entity, "00:30:00")>>

\* the automations of automation_ids that existed and were 'on' when the
\* latest run started, in the order given
WereOn ==
    SelectSeq(data.automation_ids,
              LAMBDA a : run.before[a].exists /\ run.before[a].state = "on")

\* the options of the run's input_select.set_options calls for the list
StoredOptions ==
    {calls[i].options : i \in {k \in 1..Len(calls) :
                                  /\ calls[k].domain = "input_select"
                                  /\ calls[k].entity_id = persistant_list_entity}}

(***************************************************************************)
(* C24: an override run writes to input_select.override_room_automations   *)
(* exactly the sub-list of automation_ids whose state existed and was 'on' *)
(* when the run started, in the order given; an automation that is not     *)
(* found receives no automation.turn_off, and every automation that is     *)
(* found receives one, stored or not.                                      *)
(***************************************************************************)
C24_PersistsActiveAutomations ==
    OverrideRan =>
        /\ StoredOptions = {WereOn}
        /\ \A a \in ElementsOf(data.automation_ids) :
              Issued(calls, AutomationCall("turn_off", a)) <=> run.before[a].exists

\* automation.a was 'off' and automation.b 'on': both are turned off and
\* automation.b alone is stored
C24_Witness ==
    /\ OverrideRan
    /\ data.automation_ids = <<"automation.a", "automation.b">>
    /\ run.before["automation.a"].state = "off"
    /\ run.before["automation.b"].state = "on"
    /\ Issued(calls, AutomationCall("turn_off", "automation.a"))
    /\ Issued(calls, SetOptions(persistant_list_entity, <<"automation.b">>))

\* the latest run was a restore run
RestoreRan == run.script = "smart_light_override" /\ ~run.is_overriding

(***************************************************************************)
(* C26: a restore run of python_scripts/smart_light_override.py, whatever  *)
(* its scenes (entity-id strings) and lights (dicts), finishes and reaches *)
(* the restoration of automations: every entry of the persisted list       *)
(* receives automation.turn_on.                                            *)
(***************************************************************************)
C26_RestoreReachesAutomations ==
    RestoreRan =>
        /\ run.outcome = "returned"
        /\ run.before[persistant_list_entity].exists =>
              \A a \in ElementsOf(run.before[persistant_list_entity].options) :
                  Issued(calls, AutomationCall("turn_on", a))

\* the latest run restored and every run before it overrode
RestoreAfterOverrides ==
    /\ RestoreRan
    /\ past # <<>>
    /\ \A k \in 1..Len(past) : past[k].is_overriding

(***************************************************************************)
(* C27: after one or more override runs with the same override_id and      *)
(* automation_ids followed by one restore run, every automation that was   *)
(* 'on' before the first override run is 'on' again.                       *)
(***************************************************************************)
C27_OnAgainAfterRestore ==
    RestoreAfterOverrides =>
        \A a \in ElementsOf(data.automation_ids) :
            (past[1].before[a].exists /\ past[1].before[a].state = "on")
                => hass[a].state = "on"

(***************************************************************************)
(* C16: STATE_CACHE is empty when a run of the light controller, the       *)
(* nightlight controller or the override script ends, on every path        *)
(* through the script, those where an entity is missing or a helper raises *)
(* included.                                                               *)
(***************************************************************************)
C16_CacheEmptyAtEnd ==
    run.script \in {"smart_light_controller", "smart_nightlight_controller",
                    "smart_light_override"}
        => STATE_CACHE = {}

====
